---- MODULE Spec2Model ----
(***************************************************************************)
(* Model of examples/FasterRCNN/train-mask-rcnn.py: the command line       *)
(* dispatch of the script (visualize / evaluate / predict / train), the    *)
(* GPU-count assertion of get_batch_factor, the training configuration     *)
(* (epoch counts and learning-rate schedules) and the evaluation callback  *)
(* EvalCallback with the files it writes and scores.                       *)
(*                                                                         *)
(* Strings are sequences of one-character strings, so that truthiness      *)
(* (a non-empty string) and str.endswith are computed, not assumed.        *)
(* An optional argument of argparse is a record [given, val]: given is     *)
(* FALSE for Python's None.  Learning rates are integers in units of 1e-4. *)
(***************************************************************************)
EXTENDS Integers, Sequences, FiniteSets, TLC

VARIABLES
    args,            \* the parsed command line: load, visualize, evaluate, predict
    nr_gpu,          \* what get_nr_gpu() returns in this process
    pc,              \* position of the process
    mode,            \* the branch of __main__ that was selected
    failed,          \* the assertion of the script that failed, or "none"
    called,          \* the driver functions __main__ has called
    env_autotune,    \* os.environ['TF_CUDNN_USE_AUTOTUNE']
    predictors,      \* number of predictors built
    factor,          \* local variable factor of __main__ (0: not assigned)
    cfg,             \* the TrainConfig
    epoch_num,       \* trainer's epoch_num
    global_step,     \* trainer's global_step
    epochs_to_eval,  \* EvalCallback.epochs_to_eval
    files,           \* the files written: name -> content
    results,         \* number of images in all_results of the running evaluation
    output_file,     \* output_file of the running evaluation
    evalId,          \* number of evaluations started
    evalEpochs,      \* the epochs at which EvalCallback._eval was called
    scoreLog         \* one record per call of print_evaluation_scores

vars == <<args, nr_gpu, pc, mode, failed, called, env_autotune, predictors,
          factor, cfg, epoch_num, global_step, epochs_to_eval, files, results,
          output_file, evalId, evalEpochs, scoreLog>>

(* ------------------------------ bounds -------------------------------- *)
\* GPU counts 0..MaxGpu are tried
MaxGpu == 9
\* number of images of the evaluation dataflow
NumEvalImages == 2
\* a loaded checkpoint restores a global step in 0..MaxLoadedStep
MaxLoadedStep == 1
\* the callback is also run under trainers with max_epoch in 1..MaxSmallEpoch
MaxSmallEpoch == 14

(* ------------------------- program constants -------------------------- *)
stepnum == 300
EVAL_TIMES == 5
TOTAL_BATCH == 8
WARMUP_STEPS == 500
MIN_WARMUP_EPOCH == 5
DECAY1_STEPS == 150000
DECAY2_STEPS == 210000
MAX_STEPS == 230000
LR_INIT == 30
LR_BASE == 100
LR_DECAY1 == 10
LR_DECAY2 == 1

(* ------------------------------ strings ------------------------------- *)
JSON_EXT == <<".", "j", "s", "o", "n">>

\* a test for the suffix anywhere in the string (s.find(suffix) >= 0)
EndsWithAnywhere(s, suffix) ==
    \E i \in 1..(Len(s) - Len(suffix) + 1) :
        SubSeq(s, i, i + Len(suffix) - 1) = suffix

\* str.endswith
EndsWith(s, suffix) ==
    /\ Len(s) >= Len(suffix)
    /\ SubSeq(s, Len(s) - Len(suffix) + 1, Len(s)) = suffix

None == [given |-> FALSE, val |-> <<>>]
Some(s) == [given |-> TRUE, val |-> s]

\* the test "is not None" in place of truthiness
TruthyGiven(a) == a.given

\* Python truthiness of an optional string argument: None and '' are false
Truthy(a) == a.given /\ Len(a.val) > 0

ModelPaths == { <<>>, <<"m">> }
ImagePaths == { <<>>, <<"i">> }
EvalPaths == { <<>>,
               JSON_EXT,
               <<"r">> \o JSON_EXT,
               <<"r", ".", "t", "x", "t">>,
               <<"j", "s", "o", "n">>,
               <<"r">> \o JSON_EXT \o <<"~">> }

Optional(S) == {None} \cup { Some(s) : s \in S }

Max(a, b) == IF a >= b THEN a ELSE b
CeilDiv(a, b) == (a + b - 1) \div b

(* ------------------------------- files -------------------------------- *)
\* the file the offline evaluation writes: the --evaluate path
PathName(p) == [dir |-> "cwd", path |-> p, step |-> 0]

\* a file name that ignores the global step: 'outputs.json'
OutputsNameFixed(gs) == [dir |-> "logdir", path |-> <<>>, step |-> 0]

\* os.path.join(logger.get_logger_dir(), 'outputs{}.json'.format(global_step))
OutputsName(gs) == [dir |-> "logdir", path |-> <<>>, step |-> gs]

NoFile == [dir |-> "none", path |-> <<>>, step |-> 0]

\* a file left by an earlier process
StaleFile == [n |-> NumEvalImages, closed |-> TRUE, writer |-> 0, writes |-> 0]

\* f with key k set to v (k may be new)
Put(f, k, v) == [x \in DOMAIN f \cup {k} |-> IF x = k THEN v ELSE f[x]]

NoFiles == [x \in {} |-> StaleFile]

(* -------------------------- get_batch_factor -------------------------- *)
\* the assertion with 8 missing from the list
get_batch_factor_no8(n) ==
    IF n \in {1, 2, 4}
    THEN [ok |-> TRUE, value |-> TOTAL_BATCH \div n]
    ELSE [ok |-> FALSE, value |-> 0]

\* the assertion with 3 added to the list
get_batch_factor_loose(n) ==
    IF n \in {1, 2, 3, 4, 8}
    THEN [ok |-> TRUE, value |-> TOTAL_BATCH \div n]
    ELSE [ok |-> FALSE, value |-> 0]

\* assert nr_gpu in [1, 2, 4, 8]; return 8 // nr_gpu
get_batch_factor(n) ==
    IF n \in {1, 2, 4, 8}
    THEN [ok |-> TRUE, value |-> TOTAL_BATCH \div n]
    ELSE [ok |-> FALSE, value |-> 0]

(* --------------------------- TrainConfig ------------------------------ *)
NoCfg == [built |-> FALSE, steps_per_epoch |-> 0, max_epoch |-> 0,
          warmup |-> <<>>, decay |-> <<>>, session_init |-> FALSE]

\* warmup_epoch = max(math.ceil(500.0 / stepnum), 5)
warmup_epoch == Max(CeilDiv(WARMUP_STEPS, stepnum), MIN_WARMUP_EPOCH)

\* the step-decay epochs not scaled by factor
BuildConfigNoScale(f, load) ==
    [built |-> TRUE,
     steps_per_epoch |-> stepnum,
     max_epoch |-> (MAX_STEPS * f) \div stepnum,
     warmup |-> << <<0, LR_INIT>>, <<warmup_epoch * f, LR_BASE>> >>,
     decay |-> << <<warmup_epoch * f, LR_BASE>>,
                  <<DECAY1_STEPS \div stepnum, LR_DECAY1>>,
                  <<DECAY2_STEPS \div stepnum, LR_DECAY2>> >>,
     session_init |-> Truthy(load)]

\* cfg = TrainConfig(...): the schedules of the two ScheduledHyperParamSetter
\* callbacks, steps_per_epoch, max_epoch and session_init
BuildConfig(f, load) ==
    [built |-> TRUE,
     steps_per_epoch |-> stepnum,
     max_epoch |-> (MAX_STEPS * f) \div stepnum,
     warmup |-> << <<0, LR_INIT>>, <<warmup_epoch * f, LR_BASE>> >>,
     decay |-> << <<warmup_epoch * f, LR_BASE>>,
                  <<(DECAY1_STEPS * f) \div stepnum, LR_DECAY1>>,
                  <<(DECAY2_STEPS * f) \div stepnum, LR_DECAY2>> >>,
     session_init |-> Truthy(load)]

(* --------------------- EvalCallback._before_train --------------------- *)
\* range(1, EVAL_TIMES + 1) in place of range(1, EVAL_TIMES)
EpochsToEvalOneMore(max_epoch) ==
    LET interval == max_epoch \div (EVAL_TIMES + 1)
    IN  { interval * k : k \in 1..EVAL_TIMES } \cup {max_epoch}

\* without epochs_to_eval.add(max_epoch)
EpochsToEvalNoLast(max_epoch) ==
    LET interval == max_epoch \div (EVAL_TIMES + 1)
    IN  { interval * k : k \in 1..(EVAL_TIMES - 1) }

\* interval = max_epoch // (EVAL_TIMES + 1)
\* epochs_to_eval = set([interval * k for k in range(1, EVAL_TIMES)])
\* epochs_to_eval.add(max_epoch)
EpochsToEval(max_epoch) ==
    LET interval == max_epoch \div (EVAL_TIMES + 1)
    IN  { interval * k : k \in 1..(EVAL_TIMES - 1) } \cup {max_epoch}

(* ------------------------------- Init --------------------------------- *)
\* the state of the process after parser.parse_args()
Init ==
    /\ args \in [load : Optional(ModelPaths),
                 visualize : BOOLEAN,
                 evaluate : Optional(EvalPaths),
                 predict : Optional(ImagePaths)]
    /\ nr_gpu \in 0..MaxGpu
    /\ pc = "start"
    /\ mode = "none"
    /\ failed = "none"
    /\ called = {}
    /\ env_autotune = "unset"
    /\ predictors = 0
    /\ factor = 0
    /\ cfg = NoCfg
    /\ epoch_num = 0
    /\ global_step = 0
    /\ epochs_to_eval = {}
    /\ files \in {NoFiles} \cup
                 (IF Truthy(args.evaluate)
                  THEN { Put(NoFiles, PathName(args.evaluate.val), StaleFile) }
                  ELSE {})
    /\ results = 0
    /\ output_file = NoFile
    /\ evalId = 0
    /\ evalEpochs = {}
    /\ scoreLog = {}

(* ----------------------------- __main__ ------------------------------- *)
TrainVars == <<factor, cfg, epoch_num, global_step, epochs_to_eval, evalEpochs>>
EvalVars == <<files, results, output_file, evalId, scoreLog>>

\* the inference branches, with "if" where the script has "elif": a run
\* with --visualize goes on to the evaluate and predict branches
MainInferenceFallThrough ==
    /\ pc = "start"
    /\ args.visualize \/ Truthy(args.evaluate) \/ Truthy(args.predict)
    /\ Truthy(args.load)
    /\ mode' = IF args.visualize THEN "visualize"
               ELSE IF Truthy(args.evaluate) THEN "evaluate" ELSE "predict"
    /\ failed' = "none"
    /\ called' = (IF args.visualize THEN {"visualize"} ELSE {})
                 \cup (IF Truthy(args.evaluate) THEN {"offline_evaluate"} ELSE {})
                 \cup (IF Truthy(args.predict) THEN {"predict"} ELSE {})
    /\ predictors' = Cardinality(called')
    /\ env_autotune' = IF Truthy(args.evaluate) THEN "0" ELSE env_autotune
    /\ pc' = "done"
    /\ UNCHANGED <<args, nr_gpu>>
    /\ UNCHANGED TrainVars
    /\ UNCHANGED EvalVars

\* if args.visualize or args.evaluate or args.predict: assert args.load, then
\* visualize(...) / the '.json' assertion and offline_evaluate(...) / predict(...)
MainInference ==
    /\ pc = "start"
    /\ args.visualize \/ Truthy(args.evaluate) \/ Truthy(args.predict)
    /\ IF ~Truthy(args.load)
       THEN /\ failed' = "assert_load"
            /\ pc' = "aborted"
            /\ UNCHANGED <<mode, called, env_autotune, predictors>>
       ELSE IF args.visualize
       THEN \* visualize(args.load): builds a predictor, writes images
            /\ mode' = "visualize"
            /\ called' = called \cup {"visualize"}
            /\ predictors' = predictors + 1
            /\ pc' = "done"
            /\ UNCHANGED <<failed, env_autotune>>
       ELSE IF Truthy(args.evaluate)
       THEN /\ mode' = "evaluate"
            /\ IF ~EndsWith(args.evaluate.val, JSON_EXT)
               THEN /\ failed' = "assert_json"
                    /\ pc' = "aborted"
                    /\ UNCHANGED <<called, env_autotune>>
               ELSE /\ env_autotune' = "0"
                    /\ called' = called \cup {"offline_evaluate"}
                    /\ pc' = "oe_pred"
                    /\ UNCHANGED failed
            /\ UNCHANGED predictors
       ELSE \* predict(args.load, args.predict): builds a predictor
            /\ mode' = "predict"
            /\ called' = called \cup {"predict"}
            /\ predictors' = predictors + 1
            /\ pc' = "done"
            /\ UNCHANGED <<failed, env_autotune>>
    /\ UNCHANGED <<args, nr_gpu>>
    /\ UNCHANGED TrainVars
    /\ UNCHANGED EvalVars

\* else: factor = get_batch_factor(); cfg = TrainConfig(...);
\* (Model._get_optimizer calls get_batch_factor again while the trainer builds
\* the graph: same GPU count, same outcome)
\* launch_train_with_config(cfg, trainer)
MainTrain ==
    /\ pc = "start"
    /\ ~(args.visualize \/ Truthy(args.evaluate) \/ Truthy(args.predict))
    /\ mode' = "train"
    /\ LET r == get_batch_factor(nr_gpu)
       IN  IF ~r.ok
           THEN /\ failed' = "assert_nr_gpu"
                /\ pc' = "aborted"
                /\ UNCHANGED <<factor, cfg, called>>
           ELSE /\ factor' = r.value
                /\ cfg' = BuildConfig(r.value, args.load)
                /\ called' = called \cup {"launch_train_with_config"}
                /\ pc' = "launched"
                /\ UNCHANGED failed
    /\ UNCHANGED <<args, nr_gpu, env_autotune, predictors>>
    /\ UNCHANGED <<epoch_num, global_step, epochs_to_eval, evalEpochs>>
    /\ UNCHANGED EvalVars

(* ------------------------ reading a results file ---------------------- *)
\* what print_evaluation_scores(f) finds when it opens f
FileState(f) ==
    IF f \in DOMAIN files
    THEN files[f]
    ELSE [n |-> 0, closed |-> FALSE, writer |-> -1, writes |-> 0]

\* the record of one call print_evaluation_scores(f) by evaluation e
ScoreRecord(f, e) ==
    [file |-> f, eval |-> e, n |-> FileState(f).n,
     closed |-> FileState(f).closed, writer |-> FileState(f).writer]

\* open(f, 'w') by evaluation e: the file is created or truncated
Opened(f, e) ==
    Put(files, f, [n |-> 0, closed |-> FALSE, writer |-> e,
                   writes |-> FileState(f).writes + 1])

\* json.dump(all_results, f) and the end of the with block: n results, closed
Dumped(f, n) == [files EXCEPT ![f].n = n, ![f].closed = TRUE]

MainVars == <<args, nr_gpu, mode, failed, called, env_autotune>>

(* -------------------------- offline_evaluate -------------------------- *)
\* pred = OfflinePredictor(...); df = PrefetchDataZMQ(get_eval_dataflow(), 1)
offline_evaluate_predictor ==
    /\ pc = "oe_pred"
    /\ predictors' = predictors + 1
    /\ evalId' = evalId + 1
    /\ results' = 0
    /\ output_file' = PathName(args.evaluate.val)
    /\ pc' = IF NumEvalImages = 0 THEN "oe_open" ELSE "oe_detect"
    /\ UNCHANGED MainVars
    /\ UNCHANGED TrainVars
    /\ UNCHANGED <<files, scoreLog>>

\* all_results = eval_on_dataflow(df, ...): one image of the dataflow
offline_evaluate_detect ==
    /\ pc = "oe_detect"
    /\ results < NumEvalImages
    /\ results' = results + 1
    /\ pc' = IF results' = NumEvalImages THEN "oe_open" ELSE "oe_detect"
    /\ UNCHANGED MainVars
    /\ UNCHANGED TrainVars
    /\ UNCHANGED <<predictors, files, output_file, evalId, scoreLog>>

\* with open(output_file, 'w') as f:
offline_evaluate_open ==
    /\ pc = "oe_open"
    /\ files' = Opened(output_file, evalId)
    /\ pc' = "oe_dump"
    /\ UNCHANGED MainVars
    /\ UNCHANGED TrainVars
    /\ UNCHANGED <<predictors, results, output_file, evalId, scoreLog>>

\* json.dump(all_results, f)
offline_evaluate_dump ==
    /\ pc = "oe_dump"
    /\ files' = Dumped(output_file, results)
    /\ pc' = "oe_score"
    /\ UNCHANGED MainVars
    /\ UNCHANGED TrainVars
    /\ UNCHANGED <<predictors, results, output_file, evalId, scoreLog>>

\* print_evaluation_scores(output_file)
offline_evaluate_score ==
    /\ pc = "oe_score"
    /\ scoreLog' = scoreLog \cup {ScoreRecord(output_file, evalId)}
    /\ pc' = "done"
    /\ UNCHANGED MainVars
    /\ UNCHANGED TrainVars
    /\ UNCHANGED <<predictors, files, results, output_file, evalId>>

(* ------------------------------ trainer ------------------------------- *)
\* EvalCallback._setup_graph: self.pred = self.trainer.get_predictor(...)
EvalCallback_setup_graph ==
    /\ pc = "launched"
    /\ predictors' = predictors + 1
    /\ pc' = "setup"
    /\ UNCHANGED MainVars
    /\ UNCHANGED TrainVars
    /\ UNCHANGED EvalVars

\* the trainer initialises the session: session_init restores the global
\* step of the loaded checkpoint
SessionInit ==
    /\ pc = "setup"
    /\ global_step' \in IF cfg.session_init THEN 0..MaxLoadedStep ELSE {0}
    /\ pc' = "initialized"
    /\ UNCHANGED MainVars
    /\ UNCHANGED <<predictors, factor, cfg, epoch_num, epochs_to_eval, evalEpochs>>
    /\ UNCHANGED EvalVars

\* EvalCallback._before_train
EvalCallback_before_train ==
    /\ pc = "initialized"
    /\ epochs_to_eval' = EpochsToEval(cfg.max_epoch)
    /\ pc' = "train"
    /\ UNCHANGED MainVars
    /\ UNCHANGED <<predictors, factor, cfg, epoch_num, global_step, evalEpochs>>
    /\ UNCHANGED EvalVars

\* the trainer's main loop: epochs 1..max_epoch of steps_per_epoch steps each,
\* the global step growing by one per step
RunEpoch ==
    /\ pc = "train"
    /\ epoch_num < cfg.max_epoch
    /\ epoch_num' = epoch_num + 1
    /\ global_step' = global_step + cfg.steps_per_epoch
    /\ pc' = "trigger"
    /\ UNCHANGED MainVars
    /\ UNCHANGED <<predictors, factor, cfg, epochs_to_eval, evalEpochs>>
    /\ UNCHANGED EvalVars

\* where the trainer goes after the callbacks of an epoch have been triggered
AfterEpoch == IF epoch_num = cfg.max_epoch THEN "done" ELSE "train"

(* ---------------------------- EvalCallback ---------------------------- *)
\* _trigger_epoch: if self.epoch_num in self.epochs_to_eval: self._eval()
EvalCallback_trigger_epoch ==
    /\ pc = "trigger"
    /\ IF epoch_num \in epochs_to_eval
       THEN /\ evalId' = evalId + 1
            /\ evalEpochs' = evalEpochs \cup {epoch_num}
            /\ results' = 0
            /\ pc' = IF NumEvalImages = 0 THEN "ev_open" ELSE "ev_detect"
       ELSE /\ pc' = AfterEpoch
            /\ UNCHANGED <<evalId, evalEpochs, results>>
    /\ UNCHANGED MainVars
    /\ UNCHANGED <<predictors, factor, cfg, epoch_num, global_step, epochs_to_eval>>
    /\ UNCHANGED <<files, output_file, scoreLog>>

\* _eval: all_results = eval_on_dataflow(self.df, ...): one image
EvalCallback_eval_detect ==
    /\ pc = "ev_detect"
    /\ results < NumEvalImages
    /\ results' = results + 1
    /\ pc' = IF results' = NumEvalImages THEN "ev_open" ELSE "ev_detect"
    /\ UNCHANGED MainVars
    /\ UNCHANGED TrainVars
    /\ UNCHANGED <<predictors, files, output_file, evalId, scoreLog>>

\* _eval: output_file = os.path.join(...); with open(output_file, 'w') as f:
EvalCallback_eval_open ==
    /\ pc = "ev_open"
    /\ output_file' = OutputsName(global_step)
    /\ files' = Opened(output_file', evalId)
    /\ pc' = "ev_dump"
    /\ UNCHANGED MainVars
    /\ UNCHANGED TrainVars
    /\ UNCHANGED <<predictors, results, evalId, scoreLog>>

\* the dump with the scoring moved inside the with block: the file is not
\* closed when it is scored
EvalCallback_eval_dump_unclosed ==
    /\ pc = "ev_dump"
    /\ files' = [files EXCEPT ![output_file].n = results]
    /\ pc' = "ev_score"
    /\ UNCHANGED MainVars
    /\ UNCHANGED TrainVars
    /\ UNCHANGED <<predictors, results, output_file, evalId, scoreLog>>

\* _eval: json.dump(all_results, f)
EvalCallback_eval_dump ==
    /\ pc = "ev_dump"
    /\ files' = Dumped(output_file, results)
    /\ pc' = "ev_score"
    /\ UNCHANGED MainVars
    /\ UNCHANGED TrainVars
    /\ UNCHANGED <<predictors, results, output_file, evalId, scoreLog>>

\* _eval: print_evaluation_scores(output_file)
EvalCallback_eval_score ==
    /\ pc = "ev_score"
    /\ scoreLog' = scoreLog \cup {ScoreRecord(output_file, evalId)}
    /\ pc' = AfterEpoch
    /\ UNCHANGED MainVars
    /\ UNCHANGED TrainVars
    /\ UNCHANGED <<predictors, files, results, output_file, evalId>>

(* --------------------------- specifications --------------------------- *)
Train ==
    \/ EvalCallback_setup_graph
    \/ SessionInit
    \/ EvalCallback_before_train
    \/ RunEpoch
    \/ EvalCallback_trigger_epoch
    \/ EvalCallback_eval_detect
    \/ EvalCallback_eval_open
    \/ EvalCallback_eval_dump
    \/ EvalCallback_eval_score

Next ==
    \/ MainInference
    \/ MainTrain
    \/ offline_evaluate_predictor
    \/ offline_evaluate_detect
    \/ offline_evaluate_open
    \/ offline_evaluate_dump
    \/ offline_evaluate_score
    \/ Train

\* the script, from the parsed command line on
Spec == Init /\ [][Next]_vars

\* the trainers EvalCallback is run under: the script's TrainConfig for each
\* allowed GPU count, and the same with max_epoch in 1..MaxSmallEpoch
InitEval ==
    /\ args = [load |-> None, visualize |-> FALSE, evaluate |-> None, predict |-> None]
    /\ nr_gpu \in {1, 2, 4, 8}
    /\ pc = "launched"
    /\ mode = "train"
    /\ failed = "none"
    /\ called = {"launch_train_with_config"}
    /\ env_autotune = "unset"
    /\ predictors = 0
    /\ factor = get_batch_factor(nr_gpu).value
    /\ cfg \in {BuildConfig(factor, args.load)} \cup
               { [BuildConfig(factor, args.load) EXCEPT !.max_epoch = m] :
                   m \in 1..MaxSmallEpoch }
    /\ epoch_num = 0
    /\ global_step = 0
    /\ epochs_to_eval = {}
    /\ files = NoFiles
    /\ results = 0
    /\ output_file = NoFile
    /\ evalId = 0
    /\ evalEpochs = {}
    /\ scoreLog = {}

\* EvalCallback under any trainer that runs epochs 1..max_epoch
SpecEval == InitEval /\ [][Train]_vars

(* ------------------------------ properties ---------------------------- *)
\* the driver function of a mode
Driver(m) ==
    CASE m = "visualize" -> "visualize"
      [] m = "evaluate" -> "offline_evaluate"
      [] m = "predict" -> "predict"
      [] m = "train" -> "launch_train_with_config"
      [] OTHER -> "none"

\* an optional argument was given a non-empty value
NonEmpty(a) == a.given /\ a.val # <<>>

\* the path is some prefix followed by '.json'
HasJsonSuffix(s) == \E i \in 0..Len(s) : s = SubSeq(s, 1, i) \o JSON_EXT

AllowedGpus == {1, 2, 4, 8}

InferenceFlag == args.visualize \/ NonEmpty(args.evaluate) \/ NonEmpty(args.predict)

\* C1 as written: a run that has passed its checks has called exactly one
\* driver, and its mode is one of train, evaluate, predict.
C1_Original ==
    (pc # "start" /\ failed = "none") =>
        /\ Cardinality(called) = 1
        /\ mode \in {"train", "evaluate", "predict"}

\* C1 amended: a run that has passed its checks has called exactly one
\* driver, the one of its mode, and its mode is one of the four modes
\* visualize, evaluate, predict, train.
C1_OneModeOfFour ==
    (pc # "start" /\ failed = "none") =>
        /\ mode \in {"visualize", "evaluate", "predict", "train"}
        /\ called = {Driver(mode)}

C1_Witness ==
    /\ pc = "done"
    /\ failed = "none"
    /\ mode = "visualize"
    /\ called = {"visualize"}

\* C2 as written: with a GPU count in {1, 2, 4, 8} and any --evaluate path
\* ending with '.json', no assertion fails and the driver of the selected
\* mode is entered.
C2_Original ==
    (/\ pc # "start"
     /\ nr_gpu \in AllowedGpus
     /\ (args.evaluate.given => HasJsonSuffix(args.evaluate.val)))
    => (failed = "none" /\ called = {Driver(mode)})

\* C2 amended: the script has three checks, the third being the assertion
\* that --load is set when an inference flag is: with a GPU count in
\* {1, 2, 4, 8}, any --evaluate path ending with '.json', and a non-empty
\* --load whenever --visualize or a non-empty --evaluate or --predict is
\* given, no assertion fails and the driver of the selected mode is entered.
C2_ThreeChecks ==
    /\ failed \in {"none", "assert_load", "assert_json", "assert_nr_gpu"}
    /\ (/\ pc # "start"
        /\ nr_gpu \in AllowedGpus
        /\ (args.evaluate.given => HasJsonSuffix(args.evaluate.val))
        /\ (InferenceFlag => NonEmpty(args.load)))
       => (failed = "none" /\ called = {Driver(mode)})

C2_Witness ==
    /\ pc = "oe_pred"
    /\ failed = "none"
    /\ nr_gpu = 8
    /\ called = {"offline_evaluate"}

\* C3: get_batch_factor returns exactly for the GPU counts 1, 2, 4, 8, with
\* nr_gpu * factor = 8; for any other count its assertion fails, and in
\* train mode no TrainConfig is built and the trainer is never launched.
C3_BatchFactor ==
    /\ \A n \in 0..MaxGpu :
          /\ get_batch_factor(n).ok <=> n \in AllowedGpus
          /\ get_batch_factor(n).ok => n * get_batch_factor(n).value = 8
    /\ mode = "train" =>
          IF nr_gpu \in AllowedGpus
          THEN failed = "none" /\ nr_gpu * factor = 8 /\ cfg.built
          ELSE /\ failed = "assert_nr_gpu"
               /\ pc = "aborted"
               /\ factor = 0
               /\ ~cfg.built
               /\ "launch_train_with_config" \notin called
               /\ epoch_num = 0

C3_Witness ==
    /\ mode = "train"
    /\ nr_gpu = 3
    /\ pc = "aborted"
    /\ failed = "assert_nr_gpu"

\* what C4 promises of an aborted evaluation: offline_evaluate is not called,
\* no predictor is built, no evaluation is run, no file is written and
\* TF_CUDNN_USE_AUTOTUNE is left as it was
AbortedBeforeEvaluate ==
    /\ pc = "aborted"
    /\ "offline_evaluate" \notin called
    /\ predictors = 0
    /\ evalId = 0
    /\ \A f \in DOMAIN files : files[f].writes = 0
    /\ scoreLog = {}
    /\ env_autotune = "unset"

\* C4 as written: with --load and --evaluate given and --visualize not, an
\* --evaluate path that does not end with '.json' aborts the process before
\* offline_evaluate.
C4_Original ==
    (/\ pc # "start"
     /\ args.load.given /\ ~args.visualize /\ args.evaluate.given
     /\ ~HasJsonSuffix(args.evaluate.val))
    => AbortedBeforeEvaluate

\* C4 amended: the same for a non-empty --evaluate path (an empty path is
\* false in the script's tests, so the run does not select evaluate mode).
C4_NonJsonAborts ==
    (/\ pc # "start"
     /\ args.load.given /\ ~args.visualize /\ NonEmpty(args.evaluate)
     /\ ~HasJsonSuffix(args.evaluate.val))
    => AbortedBeforeEvaluate

C4_Witness ==
    /\ pc = "aborted"
    /\ mode = "evaluate"
    /\ failed = "assert_json"
    /\ NonEmpty(args.load)
    /\ \E f \in DOMAIN files : files[f].writer = 0

\* C5: print_evaluation_scores runs on a file only after the results of the
\* whole dataflow have been written to it and the file closed, by the same
\* evaluation, offline and in EvalCallback._eval alike.
C5_ScoreAfterWrite ==
    /\ \A r \in scoreLog :
          r.n = NumEvalImages /\ r.closed /\ r.writer = r.eval
    /\ pc \in {"oe_score", "ev_score"} =>
          /\ results = NumEvalImages
          /\ FileState(output_file).n = NumEvalImages
          /\ FileState(output_file).closed
          /\ FileState(output_file).writer = evalId

C5_Witness ==
    /\ mode = "train"
    /\ pc = "done"
    /\ Cardinality(scoreLog) = EVAL_TIMES

\* C6 as written, a flag being set when it is given on the command line:
\* fixed priority visualize, evaluate, predict under --load; train iff no
\* inference flag is set; at most one driver called; none called when an
\* inference flag is set without --load.
C6_Original ==
    pc # "start" =>
        /\ (args.load.given /\ args.visualize) => mode = "visualize"
        /\ (args.load.given /\ ~args.visualize /\ args.evaluate.given)
              => mode = "evaluate"
        /\ (args.load.given /\ ~args.visualize /\ ~args.evaluate.given
              /\ args.predict.given) => mode = "predict"
        /\ mode = "train" <=>
              ~(args.visualize \/ args.evaluate.given \/ args.predict.given)
        /\ Cardinality(called) <= 1
        /\ ((args.visualize \/ args.evaluate.given \/ args.predict.given)
              /\ ~args.load.given) => called = {}

\* C6 amended: the same, a string flag counting as set only when its value
\* is non-empty.
C6_Priority ==
    pc # "start" =>
        /\ (NonEmpty(args.load) /\ args.visualize) => mode = "visualize"
        /\ (NonEmpty(args.load) /\ ~args.visualize /\ NonEmpty(args.evaluate))
              => mode = "evaluate"
        /\ (NonEmpty(args.load) /\ ~args.visualize /\ ~NonEmpty(args.evaluate)
              /\ NonEmpty(args.predict)) => mode = "predict"
        /\ mode = "train" <=> ~InferenceFlag
        /\ Cardinality(called) <= 1
        /\ (InferenceFlag /\ ~NonEmpty(args.load)) => called = {}

C6_Witness ==
    /\ pc = "done"
    /\ mode = "predict"
    /\ args.evaluate.given
    /\ called = {"predict"}

C8_LastEpochEvaluated ==
    /\ pc \notin {"launched", "setup", "initialized"} =>
          /\ cfg.max_epoch \in epochs_to_eval
          /\ \A e \in epochs_to_eval \ {cfg.max_epoch} :
                /\ e < cfg.max_epoch
                /\ \E k \in 1..4 : e = k * (cfg.max_epoch \div 6)
    /\ evalEpochs \subseteq epochs_to_eval
    /\ pc = "done" => cfg.max_epoch \in evalEpochs

C8_Witness ==
    /\ pc = "done"
    /\ cfg.max_epoch = 13
    /\ evalEpochs = {2, 4, 6, 8, 13}

\* C9: for each allowed factor the schedule epochs are ordered inside the
\* run, 0 < 5 * factor < 150000 * factor // 300 < 210000 * factor // 300 <
\* max_epoch = 230000 * factor // 300, and the warmup schedule ends at the
\* point (5 * factor, 1e-2) where the step-decay schedule starts.
C9_ScheduleOrder ==
    /\ warmup_epoch = 5
    /\ cfg.built =>
          LET w == cfg.warmup[Len(cfg.warmup)]
              d == cfg.decay
          IN  /\ factor \in {1, 2, 4, 8}
              /\ w = <<5 * factor, 100>>
              /\ d[1] = w
              /\ d[2][1] = (150000 * factor) \div 300
              /\ d[3][1] = (210000 * factor) \div 300
              /\ cfg.max_epoch = (230000 * factor) \div 300
              /\ 0 < w[1]
              /\ w[1] < d[2][1]
              /\ d[2][1] < d[3][1]
              /\ d[3][1] < cfg.max_epoch

C9_Witness ==
    /\ cfg.built
    /\ factor = 8
    /\ cfg.max_epoch = 6133
    /\ cfg.decay[2][1] = 4000

\* C10: within one training run no file is written by two evaluations of
\* EvalCallback: each evaluation writes its own 'outputs<global_step>.json'.
C10_DistinctFiles ==
    mode = "train" =>
        /\ \A f \in DOMAIN files : files[f].writes = 1
        /\ pc \in {"train", "trigger", "done"} =>
              Cardinality(DOMAIN files) = evalId

C10_Witness ==
    /\ mode = "train"
    /\ pc = "done"
    /\ Cardinality(DOMAIN files) = 5
    /\ \E f \in DOMAIN files : f.step = 300 * cfg.max_epoch + 1

====
